---- MODULE Spec2Model ----
(***************************************************************************)
(* A model of questionmarkconjugation.py: the Minkowski question mark      *)
(* function and its inverse, the binary codec to_bin / to_float and the    *)
(* tree maps of the Thompson group F.                                      *)
(*                                                                         *)
(* Numbers are exact rationals <<p, q>> in lowest terms with q > 0.  The   *)
(* codec and the tree maps only double, halve, add and subtract, which is  *)
(* exact on the dyadic values a Python float holds; the reciprocals of     *)
(* question and invquestion are modelled in exact arithmetic.              *)
(* Binary strings are sequences of the characters "0" and "1".             *)
(***************************************************************************)
EXTENDS Integers, Sequences, FiniteSets, TLC

VARIABLES
    pc,      \* "idle", "call" (a frame was just entered), "ret" (a call has
             \* returned acc to the frame below) or "error" (ZeroDivisionError)
    fn,      \* the recursive function being evaluated
    arg,     \* the x and
    depth,   \* the n of the outermost call
    stack,   \* the frames [x, n] of the calls in progress, innermost last
    acc,     \* the value the last finished call returned
    den,     \* the divisor of the last division by a variable
    hist     \* the finished outermost calls, the later fed by the earlier

vars == <<pc, fn, arg, depth, stack, acc, den, hist>>

\* ------------------------------------------------------------------ bounds
MaxDepth == 3     \* depths n range over 0..MaxDepth
MaxDen == 6       \* inputs p/q with 1 <= q <= MaxDen
GridBits == 3     \* and the dyadic inputs k/2^GridBits
MaxTail == 2      \* the bit strings w appended to a prefix have at most MaxTail digits
MaxRules == 3     \* the dictionaries drawn hold at most MaxRules rules, sigma2 apart

\* -------------------------------------------------------------- arithmetic
Abs(i) == IF i < 0 THEN -i ELSE i

RECURSIVE GCD(_, _)
GCD(a, b) == IF b = 0 THEN a ELSE GCD(b, a % b)

\* the rational p/q (q # 0) in lowest terms, denominator positive
Rat(p, q) ==
    LET g == GCD(Abs(p), Abs(q))
        s == IF q < 0 THEN -1 ELSE 1
    IN  <<(s * p) \div g, (s * q) \div g>>

Zero == <<0, 1>>
One == <<1, 1>>
Two == <<2, 1>>
Half == <<1, 2>>

Add(a, b) == Rat(a[1] * b[2] + b[1] * a[2], a[2] * b[2])
Sub(a, b) == Rat(a[1] * b[2] - b[1] * a[2], a[2] * b[2])
Mul(a, b) == Rat(a[1] * b[1], a[2] * b[2])
\* a / b, used only where b # Zero has been established
Div(a, b) == Rat(a[1] * b[2], a[2] * b[1])
Leq(a, b) == a[1] * b[2] <= b[1] * a[2]
Lt(a, b) == a[1] * b[2] < b[1] * a[2]
Geq(a, b) == Leq(b, a)
\* 2**k for any integer k
Pow2(k) == IF k >= 0 THEN <<2 ^ k, 1>> ELSE <<1, 2 ^ (-k)>>

InUnit(a) == Leq(Zero, a) /\ Leq(a, One)

\* ------------------------------------------------------------ question mark
\* the divisor of the reciprocal question(x, n) takes before it recurses
question_divisor(x) == IF Geq(x, Half) THEN x ELSE Sub(One, x)

\* question_arg with the "- 1" of the x < 1/2 branch forgotten
question_arg_NoMinusOne(x) ==
    IF Geq(x, Half)
    THEN Sub(Two, Div(One, x))
    ELSE Div(One, Sub(One, x))

\* the argument of question's recursive call
question_arg(x) ==
    IF Geq(x, Half)
    THEN Sub(Two, Div(One, x))
    ELSE Sub(Div(One, Sub(One, x)), One)

\* question_ret with (y + 1)/2 written as y/2 + 1
question_ret_Precedence(x, y) ==
    IF Geq(x, Half) THEN Add(Div(y, Two), One) ELSE Div(y, Two)

\* what question(x, n) returns, given the value y of its recursive call
question_ret(x, y) ==
    IF Geq(x, Half) THEN Div(Add(y, One), Two) ELSE Div(y, Two)

\* the argument of invquestion's recursive call
invquestion_arg(x) ==
    IF Geq(x, Half) THEN Sub(Mul(Two, x), One) ELSE Mul(Two, x)

\* the divisor invquestion(x, n) divides by, given the value y of its call
invquestion_divisor(x, y) == IF Geq(x, Half) THEN Sub(Two, y) ELSE Add(One, y)

\* invquestion_ret with 1/(1 + y) for 1/(2 - y)
invquestion_ret_WrongBranch(x, y) ==
    IF Geq(x, Half) THEN Div(One, Add(One, y)) ELSE Div(y, Add(One, y))

\* what invquestion(x, n) returns, given the value y of its recursive call
invquestion_ret(x, y) ==
    IF Geq(x, Half) THEN Div(One, Sub(Two, y)) ELSE Div(y, Add(One, y))

\* ------------------------------------------------------------ binary codec
\* to_bin_digit with x > 1/2 for x >= 1/2
to_bin_digit_Strict(x) == IF Lt(Half, x) THEN "1" ELSE "0"

\* the digit to_bin(x, n) emits first
to_bin_digit(x) == IF Geq(x, Half) THEN "1" ELSE "0"

\* the argument of to_bin's recursive call
to_bin_arg(x) ==
    IF Geq(x, Half) THEN Sub(Mul(Two, x), One) ELSE Mul(Two, x)

RECURSIVE to_bin(_, _)
to_bin(x, n) ==
    IF n = 0 THEN <<>>
    ELSE <<to_bin_digit(x)>> \o to_bin(to_bin_arg(x), n - 1)

\* Python's int() on one binary digit
int(c) == IF c = "1" THEN 1 ELSE 0

\* to_float reading the string from its last digit
RECURSIVE to_float_Reversed(_)
to_float_Reversed(string) ==
    IF string = <<>> THEN Zero
    ELSE Div(Add(<<int(string[Len(string)]), 1>>,
                 to_float_Reversed(SubSeq(string, 1, Len(string) - 1))), Two)

RECURSIVE to_float(_)
to_float(string) ==
    IF string = <<>> THEN Zero
    ELSE Div(Add(<<int(Head(string)), 1>>, to_float(Tail(string))), Two)

\* ---------------------------------------------------------------- tree maps
\* A dictionary is the sequence of its rules <<source, target>> in insertion
\* order, the order in which Python iterates over the dict.
Keys(sigma) == {sigma[i][1] : i \in 1..Len(sigma)}

\* what a call of f can produce: a number, None (the loop ends and f falls
\* off its end) or the ValueError of max() over no rules
Value(v) == [kind |-> "value", val |-> v]
None == [kind |-> "None", val |-> Zero]
ValueError == [kind |-> "ValueError", val |-> Zero]

\* n = max(len(s) for s in sigma), for a dictionary with at least one rule
maxLen(sigma) ==
    CHOOSE n \in {Len(s) : s \in Keys(sigma)} : \A s \in Keys(sigma) : Len(s) <= n

\* Matches with the slice one digit short on both sides
Matches_ShortSlice(string, string_0) ==
    SubSeq(string, 1, Len(string_0) - 1) = SubSeq(string_0, 1, Len(string_0) - 1)

\* string[:len(string_0)] == string_0
Matches(string, string_0) ==
    SubSeq(string, 1, Len(string_0)) = string_0

\* Rescale with the target cell scaled by the length of the source prefix
Rescale_SourceScale(x, string_0, target) ==
    LET y == Mul(Sub(x, to_float(string_0)), Pow2(Len(string_0)))
    IN  Add(to_float(target), Mul(y, Pow2(-Len(string_0))))

\* Rescale with the left end of the source cell not subtracted
Rescale_NoOffset(x, string_0, target) ==
    LET y == Mul(x, Pow2(Len(string_0)))
    IN  Add(to_float(target), Mul(y, Pow2(-Len(target))))

\* the value f returns for x once the rule string_0 -> target has matched
Rescale(x, string_0, target) ==
    LET y == Mul(Sub(x, to_float(string_0)), Pow2(Len(string_0)))
    IN  Add(to_float(target), Mul(y, Pow2(-Len(target))))

\* scan falling back to the identity when no rule matches
RECURSIVE scan_Identity(_, _, _, _)
scan_Identity(sigma, i, string, x) ==
    IF i > Len(sigma) THEN Value(x)
    ELSE IF Matches(string, sigma[i][1])
         THEN Value(Rescale(x, sigma[i][1], sigma[i][2]))
         ELSE scan_Identity(sigma, i + 1, string, x)

\* the for loop of f from rule i on: the first rule that matches returns
RECURSIVE scan(_, _, _, _)
scan(sigma, i, string, x) ==
    IF i > Len(sigma) THEN None
    ELSE IF Matches(string, sigma[i][1])
         THEN Value(Rescale(x, sigma[i][1], sigma[i][2]))
         ELSE scan(sigma, i + 1, string, x)

\* treemap(sigma)(x)
f(sigma, x) ==
    IF sigma = <<>> THEN ValueError
    ELSE scan(sigma, 1, to_bin(x, maxLen(sigma)), x)

sigma1 == << <<<<"0", "0">>, <<"0">>>>,
             <<<<"0", "1">>, <<"1", "0">>>>,
             <<<<"1">>, <<"1", "1">>>> >>

sigma2 == << <<<<"0", "0", "0">>, <<"0", "0">>>>,
             <<<<"0", "0", "1">>, <<"0", "1", "0">>>>,
             <<<<"0", "1">>, <<"0", "1", "1">>>>,
             <<<<"1">>, <<"1">>>> >>

\* --------------------------------------------------- the dictionaries drawn
Prepend(c, S) == {<<c>> \o s : s \in S}

\* the complete prefix codes with at most m words
RECURSIVE Codes(_)
Codes(m) ==
    IF m <= 0 THEN {}
    ELSE {{<<>>}} \cup
         {Prepend("0", A) \cup Prepend("1", B) :
              <<A, B>> \in {c \in Codes(m - 1) \X Codes(m - 1) :
                               Cardinality(c[1]) + Cardinality(c[2]) <= m}}

\* the words of an antichain in lexicographic order
RECURSIVE LexSeq(_)
LexSeq(S) ==
    IF S = {} THEN <<>>
    ELSE LET s == CHOOSE t \in S : \A u \in S : Leq(to_float(t), to_float(u))
         IN  <<s>> \o LexSeq(S \ {s})

Perms(m) == {p \in [1..m -> 1..m] : \A i, j \in 1..m : p[i] = p[j] => i = j}

\* the rules LexSeq(A)[i] -> LexSeq(B)[p[i]]
Zip(A, B, p) ==
    [i \in 1..Cardinality(A) |-> <<LexSeq(A)[i], LexSeq(B)[p[i]]>>]

Identity(m) == [i \in 1..m |-> i]

\* well-formed dictionaries that keep the lexicographic order
OrderPreserving ==
    {Zip(c[1], c[2], Identity(Cardinality(c[1]))) :
        c \in {d \in Codes(MaxRules) \X Codes(MaxRules) :
                  Cardinality(d[1]) = Cardinality(d[2])}}

\* the rotations of 1..m and its reversal
Shifts(m) ==
    {[i \in 1..m |-> ((i + r - 1) % m) + 1] : r \in 0..(m - 1)}
        \cup {[i \in 1..m |-> m + 1 - i]}

\* well-formed dictionaries that rotate or reverse the lexicographic order
Shifted ==
    UNION {{Zip(c[1], c[2], p) : p \in Shifts(Cardinality(c[1]))} :
        c \in {d \in Codes(MaxRules) \X Codes(MaxRules) :
                  Cardinality(d[1]) = Cardinality(d[2])}}

\* sigma without its rule i
Drop(sigma, i) == SubSeq(sigma, 1, i - 1) \o SubSeq(sigma, i + 1, Len(sigma))

\* dictionaries that cover only part of [0, 1]
NonCovering ==
    {Drop(c[1], c[2]) :
        c \in {d \in (OrderPreserving \cup {sigma1, sigma2}) \X (1..(MaxRules + 1)) :
                  d[2] <= Len(d[1])}}

\* dictionaries whose sources overlap
Overlapping ==
    { << <<<<"0">>, <<"1">>>>, <<<<"0", "0">>, <<"0">>>> >>,
      << <<<<"0", "0">>, <<"0">>>>, <<<<"0">>, <<"1">>>> >>,
      << <<<<"1">>, <<"0">>>>, <<<<"1", "0">>, <<"1", "1">>>>,
         <<<<"0">>, <<"1">>>> >> }

Dictionaries ==
    {sigma1, sigma2} \cup OrderPreserving \cup Shifted \cup NonCovering
        \cup Overlapping

\* the inputs drawn: p/q for q <= MaxDen, and k/2^GridBits
Inputs ==
    {Rat(c[1], c[2]) : c \in {d \in (0..MaxDen) \X (1..MaxDen) : d[1] <= d[2]}}
        \cup {Rat(k, 2 ^ GridBits) : k \in 0..(2 ^ GridBits)}

Depths == 0..MaxDepth


\* ------------------------------------------------------------------- state
\* a return value: a number (question, invquestion) or a string (to_bin)
Ret(val, str) == [val |-> val, str |-> str]

\* a finished call: fn(x, n), treemap(sigma)(x) or to_float(str)
Finished(fun, x, n, sigma, str, res) ==
    [fn |-> fun, x |-> x, n |-> n, sigma |-> sigma, str |-> str, res |-> res]

Init ==
    /\ pc = "idle"
    /\ fn = "question"
    /\ arg = Zero
    /\ depth = 0
    /\ stack = <<>>
    /\ acc = Ret(Zero, <<>>)
    /\ den = One
    /\ hist = <<>>

Top == stack[Len(stack)]
Pop == SubSeq(stack, 1, Len(stack) - 1)

\* question(x, n), invquestion(x, n) or to_bin(x, n) is called
Enter(fun, x, n) ==
    /\ pc' = "call"
    /\ fn' = fun
    /\ arg' = x
    /\ depth' = n
    /\ stack' = <<[x |-> x, n |-> n]>>
    /\ acc' = Ret(Zero, <<>>)
    /\ den' = One

\* the next sample point: one of the recursive functions is called on it
Call(fun, x, n) ==
    /\ pc = "idle"
    /\ hist = <<>>
    /\ Enter(fun, x, n)
    /\ UNCHANGED hist

\* invq applied to the value q returned, at the same depth
CallInverse ==
    /\ pc = "idle"
    /\ Len(hist) = 1
    /\ hist[1].fn = "question"
    /\ Enter("invquestion", hist[1].res.val, hist[1].n)
    /\ UNCHANGED hist

\* the edge case of the frame just entered
IsBase(fun, x, n) ==
    IF fun = "to_bin" THEN n = 0 ELSE x = Zero \/ n = 0

BaseValue(fun, x) ==
    IF fun = "to_bin" THEN Ret(Zero, <<>>) ELSE Ret(x, <<>>)

Base ==
    /\ pc = "call"
    /\ IsBase(fn, Top.x, Top.n)
    /\ acc' = BaseValue(fn, Top.x)
    /\ stack' = Pop
    /\ pc' = "ret"
    /\ UNCHANGED <<fn, arg, depth, den, hist>>

\* the argument the frame's recursive call receives
CallArg(fun, x) ==
    CASE fun = "question" -> question_arg(x)
      [] fun = "invquestion" -> invquestion_arg(x)
      [] OTHER -> to_bin_arg(x)

\* the frame just entered makes its recursive call; question divides first
Recurse ==
    /\ pc = "call"
    /\ ~IsBase(fn, Top.x, Top.n)
    /\ IF fn = "question" /\ question_divisor(Top.x) = Zero
       THEN /\ pc' = "error"
            /\ den' = Zero
            /\ UNCHANGED stack
       ELSE /\ pc' = "call"
            /\ den' = IF fn = "question" THEN question_divisor(Top.x) ELSE den
            /\ stack' = Append(stack, [x |-> CallArg(fn, Top.x), n |-> Top.n - 1])
    /\ UNCHANGED <<fn, arg, depth, acc, hist>>

\* what the frame returns, given what its recursive call returned
ReturnValue(fun, x, y) ==
    CASE fun = "question" -> Ret(question_ret(x, y.val), <<>>)
      [] fun = "invquestion" -> Ret(invquestion_ret(x, y.val), <<>>)
      [] OTHER -> Ret(Zero, <<to_bin_digit(x)>> \o y.str)

\* the recursive call has returned acc to the frame on top; invquestion
\* divides here
Return ==
    /\ pc = "ret"
    /\ stack # <<>>
    /\ IF fn = "invquestion" /\ invquestion_divisor(Top.x, acc.val) = Zero
       THEN /\ pc' = "error"
            /\ den' = Zero
            /\ UNCHANGED <<stack, acc>>
       ELSE /\ pc' = "ret"
            /\ den' = IF fn = "invquestion"
                      THEN invquestion_divisor(Top.x, acc.val) ELSE den
            /\ acc' = ReturnValue(fn, Top.x, acc)
            /\ stack' = Pop
    /\ UNCHANGED <<fn, arg, depth, hist>>

\* the outermost call returns to its caller
Finish ==
    /\ pc = "ret"
    /\ stack = <<>>
    /\ pc' = "idle"
    /\ hist' = Append(hist, Finished(fn, arg, depth, <<>>, acc.str, Value(acc.val)))
    /\ UNCHANGED <<fn, arg, depth, stack, acc, den>>

\* to_float applied to the string to_bin returned
Decode ==
    /\ pc = "idle"
    /\ Len(hist) = 1
    /\ hist[1].fn = "to_bin"
    /\ hist' = Append(hist, Finished("to_float", Zero, 0, <<>>, hist[1].str,
                                     Value(to_float(hist[1].str))))
    /\ UNCHANGED <<pc, fn, arg, depth, stack, acc, den>>

\* treemap(sigma) is built and applied to x
Apply(sigma, x) ==
    /\ pc = "idle"
    /\ hist = <<>>
    /\ hist' = <<Finished("f", x, 0, sigma, <<>>, f(sigma, x))>>
    /\ UNCHANGED <<pc, fn, arg, depth, stack, acc, den>>

\* the results of this sample point are handed over; on to the next one
NextSample ==
    /\ pc = "idle"
    /\ hist # <<>>
    /\ pc' = "idle"
    /\ fn' = "question"
    /\ arg' = Zero
    /\ depth' = 0
    /\ stack' = <<>>
    /\ acc' = Ret(Zero, <<>>)
    /\ den' = One
    /\ hist' = <<>>

Functions == {"question", "invquestion", "to_bin"}

Next ==
    \/ \E fun \in Functions, x \in Inputs, n \in Depths : Call(fun, x, n)
    \/ CallInverse
    \/ Base
    \/ Recurse
    \/ Return
    \/ Finish
    \/ Decode
    \/ \E sigma \in Dictionaries, x \in Inputs : Apply(sigma, x)
    \/ NextSample

Spec == Init /\ [][Next]_vars

\* ------------------------------------------------------------------ claims
RatAbs(a) == <<Abs(a[1]), a[2]>>

\* to_float has just decoded the string to_bin(x, n) returned
Decoded == pc = "idle" /\ Len(hist) = 2 /\ hist[2].fn = "to_float"

\* C1: for every x in [0, 1] and every depth n, to_float(to_bin(x, n)) lies
\* in the closed interval [x - 2^-n, x].
C1_RoundTripInterval ==
    Decoded =>
        /\ hist[2].str = hist[1].str
        /\ Leq(Sub(hist[1].x, Pow2(-hist[1].n)), hist[2].res.val)
        /\ Leq(hist[2].res.val, hist[1].x)

\* x = 1 at depth 2 decodes to 3/4, the lower end of the interval
C1_Witness ==
    /\ Decoded
    /\ hist[1].x = One
    /\ hist[1].n = 2
    /\ hist[2].res.val = <<3, 4>>

\* C2 as stated: for every x in [0, 1], x = 1 included, and every depth n,
\* to_float(to_bin(x, n)) differs from x by strictly less than 2^-n.
C2_StrictEverywhere ==
    Decoded =>
        Lt(RatAbs(Sub(hist[1].x, hist[2].res.val)), Pow2(-hist[1].n))

\* C2 amended: to_float(to_bin(x, n)) differs from x by strictly less than
\* 2^-n for every x in [0, 1); for x = 1 the string is n ones and the
\* difference is 2^-n itself in exact arithmetic.
C2_StrictBelowOne ==
    Decoded =>
        IF hist[1].x = One
        THEN Sub(hist[1].x, hist[2].res.val) = Pow2(-hist[1].n)
        ELSE Lt(RatAbs(Sub(hist[1].x, hist[2].res.val)), Pow2(-hist[1].n))

\* x = 1 at depth 3 decodes to 7/8, exactly 2^-3 below x
C2_Witness ==
    /\ Decoded
    /\ hist[1].x = One
    /\ hist[1].n = 3
    /\ hist[2].res.val = <<7, 8>>

QuestionMark == {"question", "invquestion"}

\* C5: for every depth n, question(0, n) = 0, question(1, n) = 1,
\* invquestion(0, n) = 0 and invquestion(1, n) = 1.
C5_FixedEndpoints ==
    \A i \in 1..Len(hist) :
        (hist[i].fn \in QuestionMark /\ hist[i].x \in {Zero, One}) =>
            hist[i].res = Value(hist[i].x)

\* question(1, 3) has returned 1 and invquestion(1, 3) after it
C5_Witness ==
    /\ pc = "idle"
    /\ Len(hist) = 2
    /\ hist[1].fn = "question"
    /\ hist[1].x = One
    /\ hist[1].n = 3
    /\ hist[2].fn = "invquestion"
    /\ hist[2].x = One
    /\ hist[2].res = Value(One)

\* C10: in exact arithmetic invquestion undoes question at the same depth:
\* invquestion(question(x, n), n) = x for every x in [0, 1] and every n.
C10_InverseUndoes ==
    (pc = "idle" /\ Len(hist) = 2 /\ hist[2].fn = "invquestion") =>
        /\ hist[2].x = hist[1].res.val
        /\ hist[2].n = hist[1].n
        /\ hist[2].res = Value(hist[1].x)

\* question(2/5, 3) = 3/8, and invquestion(3/8, 3) gives 2/5 back
C10_Witness ==
    /\ pc = "idle"
    /\ Len(hist) = 2
    /\ hist[1].fn = "question"
    /\ hist[1].x = <<2, 5>>
    /\ hist[1].n = 3
    /\ hist[1].res = Value(<<3, 8>>)
    /\ hist[2].fn = "invquestion"
    /\ hist[2].res = Value(<<2, 5>>)

IsPrefixOf(a, w) == Len(a) <= Len(w) /\ SubSeq(w, 1, Len(a)) = a
Antichain(S) == \A a, b \in S : a # b => ~IsPrefixOf(a, b)
WordsOfLen(k) == [1..k -> {"0", "1"}]
LongestIn(S) == CHOOSE n \in {Len(a) : a \in S} : \A a \in S : Len(a) <= n
\* every infinite binary string has exactly one word of S as a prefix
CompleteCode(S) ==
    /\ S # {}
    /\ Antichain(S)
    /\ \A w \in WordsOfLen(LongestIn(S)) : \E a \in S : IsPrefixOf(a, w)
Targets(sigma) == {sigma[i][2] : i \in 1..Len(sigma)}
SourceComplete(sigma) == CompleteCode(Keys(sigma))
WellFormed(sigma) ==
    /\ SourceComplete(sigma)
    /\ CompleteCode(Targets(sigma))
    /\ Cardinality(Targets(sigma)) = Len(sigma)

\* C9: every recursive call of question, invquestion and to_bin receives an
\* argument in [0, 1], no division is by zero (the divisors x, 1 - x, 2 - y
\* and 1 + y are at least 1/2, the values y returned are in [0, 1]), question
\* and invquestion return values in [0, 1], and so does the tree map of a
\* well-formed dictionary.
C9_StaysInUnitInterval ==
    /\ pc # "error"
    /\ Geq(den, Half)
    /\ \A i \in 1..Len(stack) : InUnit(stack[i].x)
    /\ (pc = "ret" /\ fn \in QuestionMark) => InUnit(acc.val)
    /\ \A i \in 1..Len(hist) :
          /\ hist[i].fn \in QuestionMark =>
                hist[i].res.kind = "value" /\ InUnit(hist[i].res.val)
          /\ (hist[i].fn = "f" /\ WellFormed(hist[i].sigma)) =>
                hist[i].res.kind = "value" /\ InUnit(hist[i].res.val)

\* question(1/3, n) has divided by 1 - 1/3 and by 1/2 and now enters the
\* frame of the argument 0
C9_Witness ==
    /\ pc = "call"
    /\ fn = "question"
    /\ arg = <<1, 3>>
    /\ Len(stack) = 3
    /\ stack[2].x = Half
    /\ stack[3].x = Zero
    /\ den = Half

\* a tree map has just been applied
Applied == pc = "idle" /\ Len(hist) = 1 /\ hist[1].fn = "f"

Words(m) == UNION {WordsOfLen(k) : k \in 0..m}

\* C3: for a well-formed dictionary sigma, every rule a -> b of it and every
\* finite bit string w (of at most MaxTail digits), treemap(sigma) maps
\* to_float(a + w) to to_float(b + w).
C3_SubstitutesPrefixes ==
    (Applied /\ WellFormed(hist[1].sigma)) =>
        \A i \in 1..Len(hist[1].sigma), w \in Words(MaxTail) :
            hist[1].x = to_float(hist[1].sigma[i][1] \o w) =>
                hist[1].res = Value(to_float(hist[1].sigma[i][2] \o w))

\* sigma1 at 5/8 = 0.101: the rule 1 -> 11 with w = 01 gives 0.1101 = 13/16
C3_Witness ==
    /\ Applied
    /\ hist[1].sigma = sigma1
    /\ hist[1].x = to_float(<<"1">> \o <<"0", "1">>)
    /\ hist[1].res = Value(<<13, 16>>)

\* s comes before t in the lexicographic order
LexLess(s, t) ==
    \E k \in 1..Len(s) :
        /\ k <= Len(t)
        /\ SubSeq(s, 1, k - 1) = SubSeq(t, 1, k - 1)
        /\ s[k] = "0"
        /\ t[k] = "1"

OrderKept(sigma) ==
    \A i, j \in 1..Len(sigma) :
        LexLess(sigma[i][1], sigma[j][1]) => LexLess(sigma[i][2], sigma[j][2])

\* C4: the tree map of a well-formed dictionary that keeps the lexicographic
\* order is non-decreasing: f(x1) <= f(x2) for all x1 <= x2 in [0, 1].
C4_Monotone ==
    (Applied /\ WellFormed(hist[1].sigma) /\ OrderKept(hist[1].sigma)) =>
        \A x1 \in Inputs :
            Leq(x1, hist[1].x) =>
                /\ f(hist[1].sigma, x1).kind = "value"
                /\ hist[1].res.kind = "value"
                /\ Leq(f(hist[1].sigma, x1).val, hist[1].res.val)

\* sigma2 at x2 = 1, with f(1) = 1 above f(3/8) = 7/16 of another cell
C4_Witness ==
    /\ Applied
    /\ hist[1].sigma = sigma2
    /\ hist[1].x = One
    /\ hist[1].res = Value(One)
    /\ f(sigma2, <<3, 8>>) = Value(<<7, 16>>)

\* C6: the tree map of sigma1 fixes both endpoints: it maps 0 to 0 and 1 to 1.
C6_Sigma1FixesEndpoints ==
    (Applied /\ hist[1].sigma = sigma1 /\ hist[1].x \in {Zero, One}) =>
        hist[1].res = Value(hist[1].x)

\* sigma1 at 1: to_bin gives 11, the rule 1 -> 11 matches, the result is 1
C6_Witness ==
    /\ Applied
    /\ hist[1].sigma = sigma1
    /\ hist[1].x = One
    /\ to_bin(One, maxLen(sigma1)) = <<"1", "1">>
    /\ hist[1].res = Value(One)

\* the rules of sigma whose source is a prefix of to_bin(x, maxLen)
Matching(sigma, x) ==
    {i \in 1..Len(sigma) : Matches(to_bin(x, maxLen(sigma)), sigma[i][1])}

\* sigma scanned in the order p
Permute(sigma, p) == [i \in 1..Len(sigma) |-> sigma[p[i]]]

\* C7: when the source prefixes form a complete prefix code, exactly one of
\* them is a prefix of to_bin(x, maxLen) for every x in [0, 1], and the
\* value of the tree map is the same in whatever order the rules are scanned.
C7_OneMatchAnyOrder ==
    (Applied /\ SourceComplete(hist[1].sigma)) =>
        /\ Cardinality(Matching(hist[1].sigma, hist[1].x)) = 1
        /\ \A p \in Perms(Len(hist[1].sigma)) :
               f(Permute(hist[1].sigma, p), hist[1].x) = hist[1].res

\* sigma2 at 1: only its last rule matches to_bin(1, 3) = 111
C7_Witness ==
    /\ Applied
    /\ hist[1].sigma = sigma2
    /\ hist[1].x = One
    /\ Matching(sigma2, One) = {4}
    /\ hist[1].res.kind = "value"

\* some infinite binary string has no source prefix of sigma as a prefix
NonCoveringDict(sigma) ==
    \/ sigma = <<>>
    \/ \E w \in WordsOfLen(LongestIn(Keys(sigma))) :
           \A a \in Keys(sigma) : ~IsPrefixOf(a, w)

\* the first rule of sigma, in scan order, that matches
FirstMatch(sigma, x) ==
    CHOOSE i \in Matching(sigma, x) : \A j \in Matching(sigma, x) : i <= j

\* the result for a dictionary of at least one rule: None without a match,
\* the value of the first matching rule with one
NoneOrFirstMatch(sigma, x, res) ==
    IF \A i \in 1..Len(sigma) : i \notin Matching(sigma, x)
    THEN res = None
    ELSE res = Value(Rescale(x, sigma[FirstMatch(sigma, x)][1],
                             sigma[FirstMatch(sigma, x)][2]))

\* C8 as stated: for a non-covering dictionary the tree map returns None and
\* raises no error when no source prefix is a prefix of to_bin(x, maxLen),
\* and the value of the matching rule otherwise.
C8_NoneWithoutMatch ==
    (Applied /\ NonCoveringDict(hist[1].sigma)) =>
        NoneOrFirstMatch(hist[1].sigma, hist[1].x, hist[1].res)

\* C8 amended: for a non-covering dictionary of at least one rule the tree
\* map returns None and raises no error when no source prefix is a prefix of
\* to_bin(x, maxLen), and the value of the first matching rule otherwise;
\* for the dictionary of no rule max() raises ValueError.
C8_NoneWithoutMatchUnlessEmpty ==
    (Applied /\ NonCoveringDict(hist[1].sigma)) =>
        IF hist[1].sigma = <<>>
        THEN hist[1].res = ValueError
        ELSE NoneOrFirstMatch(hist[1].sigma, hist[1].x, hist[1].res)

\* sigma1 without its rule 1 -> 11, at x = 1: no rule matches, None
C8_Witness ==
    /\ Applied
    /\ hist[1].sigma = Drop(sigma1, 3)
    /\ hist[1].x = One
    /\ Matching(hist[1].sigma, One) = {}
    /\ hist[1].res = None

====
